---- MODULE Spec2Model ----
(***************************************************************************)
(* Model of the jobs of the repository.                                    *)
(*                                                                         *)
(* jobs/provision_device.py: ProvisionDevice._deploy_config, the           *)
(* NAPALM deployment sequence (driver construction, open, load candidate,  *)
(* compare, commit or discard, get_facts, exception handlers, finally),    *)
(* and ProvisionDevice.run around it: device validation, _get_credentials, *)
(* _get_intended_config.                                                   *)
(*                                                                         *)
(* jobs/nautobot_job_fix_connectivity.py: FixNetworkConnectivity.run, the  *)
(* loop over the devices, and for each device validation, rendering and    *)
(* the eAPI push of _push_config_to_device.                                *)
(*                                                                         *)
(* Every call into the NAPALM driver is one step whose result is chosen    *)
(* by the environment: it returns, or it raises one of the exception       *)
(* classes the handlers of _deploy_config tell apart.  Every pyeapi call   *)
(* is likewise one step that returns or raises.                            *)
(***************************************************************************)
EXTENDS Naturals, Sequences, FiniteSets

VARIABLES
    pc,             \* position of the job inside its run method
    device,         \* what the Device record lacks, "ok" when nothing
    secrets_group,  \* device.secrets_group is set
    golden,         \* what the Golden Config plugin holds for the device
    username,       \* local username of _get_credentials, as returned
    password,       \* local password of _get_credentials, as returned
    username_from_secrets,  \* local flag of _get_credentials
    password_from_secrets,  \* local flag of _get_credentials
    store_calls,    \* get_secret_value calls made, in order, with their result
    intended_config,  \* local intended_config of run
    dry_run,        \* parameter dry_run (of either job)
    replace,        \* parameter replace
    commit,         \* parameter commit / commit_changes (of either job)
    show_debug,     \* self._show_debug
    napalm_args,    \* device.platform.napalm_args, as its shape
    napalm_device,  \* local napalm_device: "None" or "driver"
    diff,           \* local diff: "unset" or the text compare_config returned
    exc,            \* exception in flight, "none" when there is none
    calls,          \* calls made on napalm_device, in order, with their result
    log,            \* messages handed to self.logger, in order
    session,        \* the device-side transport session: none, open, closed
    PYEAPI_AVAILABLE,  \* module flag of nautobot_job_fix_connectivity
    devices,        \* FixNetworkConnectivity.run: the devices, as their shapes
    position,       \* index in devices of the device the for loop is at
    eapi            \* pyeapi calls made, in order, with device and result

vars == << pc, device, secrets_group, golden, username, password,
           username_from_secrets, password_from_secrets, store_calls,
           intended_config, dry_run, replace, commit, show_debug, napalm_args,
           napalm_device, diff, exc, calls, log, session,
           PYEAPI_AVAILABLE, devices, position, eapi >>

----------------------------------------------------------------------------
(* Exception classes the except clauses distinguish.  MergeConfigException *)
(* and Exception stand for every class that only `except Exception` takes. *)
Raised == { "ConnectionException", "CommitError", "ReplaceConfigException",
            "MergeConfigException", "Exception" }

Results == { "ok" } \cup Raised

(* Texts compare_config may return: empty (no change) or a change. *)
DiffTexts == { "", "+vlan 10" }

(* Shapes of device.platform.napalm_args: unset, a dict, a JSON string     *)
(* that parses, a string that json.loads rejects.                          *)
NapalmArgs == { "None", "dict", "json", "badjson" }

----------------------------------------------------------------------------
(* self.logger.<level>(message) *)
Logger(l, level, msg, detail) ==
    Append(l, [ level |-> level, msg |-> msg, detail |-> detail ])

(* _log_info: the message reaches the logger only in debug mode. *)
LogInfo(l, msg) ==
    IF show_debug THEN Logger(l, "info", msg, "") ELSE l

(* _log_info with a credential text inside the message. *)
LogInfoD(l, msg, detail) ==
    IF show_debug THEN Logger(l, "info", msg, detail) ELSE l

(* _log_debug: the same gate, at debug level. *)
LogDebug(l, msg) ==
    IF show_debug THEN Logger(l, "debug", msg, "") ELSE l

(* What the Device record may lack, in the order _validate_device tests. *)
DeviceShapes == { "ok", "no_platform", "no_driver", "no_ip" }

(* What GoldenConfig holds: the plugin is not importable, no record for    *)
(* the device, a record without intended config, a record with it.         *)
GoldenStates == { "not_installed", "DoesNotExist", "empty", "text" }

(* The intended configuration of a record that has one. *)
IntendedText == "hostname sw1"

(* get_secret_value: a value, an empty result, or an exception. *)
StoreRaises == "<raises>"

UsernameResults == { "netops", "admin", "", StoreRaises }

PasswordResults == { "s3cret", "admin", "", StoreRaises }

(* Lines 142-143: the defaults. *)
DefaultUsername == "admin"

(* Variant of DefaultPassword with no default at all. *)
DefaultPassword_empty == ""

DefaultPassword == "admin"

(* `if username:` / `if password:` on what the store returned. *)
Obtained(r) == r # "" /\ r # StoreRaises

(* Variant of Resolved in which only an exception falls back to the        *)
(* default (the `else:` branch of `if username:` forgotten).               *)
Resolved_keeps_empty(r, default) == IF r = StoreRaises THEN default ELSE r

(* Lines 153-168 and 171-186: the field after its try block. *)
Resolved(r, default) == IF Obtained(r) THEN r ELSE default

(* Variant of FromSecrets requiring both fields (`and` for `or`). *)
FromSecrets_both(u, p) == u /\ p

(* Line 189: `if username_from_secrets or password_from_secrets:` *)
FromSecrets(u, p) == u \/ p

(* Variant of ConfigUsable in which run does not test the result. *)
ConfigUsable_unchecked(c) == TRUE

(* Line 87: `if not intended_config:` negated. *)
ConfigUsable(c) == c # "None" /\ c # ""

(* Variant of LoadedMessage that goes through _log_info. *)
LoadedMessage_debug_only(l) == LogInfo(l, "Configuration loaded successfully")

(* Line 342: self.logger.success("Configuration loaded successfully") *)
LoadedMessage(l) == Logger(l, "success", "Configuration loaded successfully", "")

(* Variant of AfterHandlerDiscard that tries the discard again when it     *)
(* raised.                                                                 *)
AfterHandlerDiscard_retry(r) == IF r = "ok" THEN "finally" ELSE "except_discard"

(* Lines 402-409: whatever the handler's discard did, finally comes next. *)
AfterHandlerDiscard(r) == "finally"

(* Line 103: self.logger.success("Provisioning completed for ...") *)
CompletedMessage(l) == Logger(l, "success", "Provisioning completed", "")

(* One call on napalm_device, recorded with how it ended. *)
Call(op, res) == calls' = Append(calls, [ op |-> op, res |-> res ])

(* Variant of HandlerFor without the (CommitError, ReplaceConfigException) *)
(* clause.                                                                 *)
HandlerFor_commit_generic(e) ==
    IF e = "ConnectionException" THEN "except_connection" ELSE "except_generic"

(* Variant of HandlerFor with `except Exception` written first. *)
HandlerFor_all_generic(e) == "except_generic"

(* The except clause that takes exception e, in the order they are written. *)
HandlerFor(e) ==
    IF e = "ConnectionException" THEN "except_connection"
    ELSE IF e \in { "CommitError", "ReplaceConfigException" } THEN "except_commit"
    ELSE "except_generic"

(* Variant of Truthy with the test inverted (`if not napalm_device:`). *)
Truthy_inverted(d) == d = "None"

(* The truth value of `if napalm_device:` *)
Truthy(d) == d # "None"

(* Variant of StageOp with the two branches exchanged. *)
StageOp_swapped(r) == IF r THEN "load_merge_candidate" ELSE "load_replace_candidate"

(* The staging call chosen by `if replace:` *)
StageOp(r) == IF r THEN "load_replace_candidate" ELSE "load_merge_candidate"

(* Variant of AfterReturn in which the `return` leaves the method at once, *)
(* as it would if close() stood at the end of the try block.               *)
AfterReturn_skips_finally == "done"

(* Where control goes on the `return` of the no-change branch (line 356):  *)
(* the finally clause still runs.                                          *)
AfterReturn == "finally"

(* The job's parameters. *)
flags == << dry_run, replace, commit, show_debug, napalm_args >>

(* What the Device record and the plugin hold: never assigned by the job. *)
inventory == << device, secrets_group, golden >>

(* Locals of _get_credentials. *)
creds == << username, password, username_from_secrets, password_from_secrets,
            store_calls >>

(* Everything _deploy_config receives and never assigns. *)
params == << flags, inventory, creds, intended_config >>

(* Locals of _deploy_config and the driver behind them. *)
deploy == << napalm_device, diff, exc, calls, session >>

(* State of FixNetworkConnectivity, apart from the parameters and the log. *)
fixjob == << PYEAPI_AVAILABLE, devices, position, eapi >>

(* FixNetworkConnectivity is not running. *)
FixIdle ==
    /\ PYEAPI_AVAILABLE = TRUE
    /\ devices = << >>
    /\ position = 0
    /\ eapi = << >>

----------------------------------------------------------------------------
Init ==
    /\ pc = "deploy"
    /\ device = "ok"
    /\ secrets_group = FALSE
    /\ golden = "text"
    /\ username = DefaultUsername
    /\ password = DefaultPassword
    /\ username_from_secrets = FALSE
    /\ password_from_secrets = FALSE
    /\ store_calls = << >>
    /\ intended_config = IntendedText
    /\ dry_run \in BOOLEAN
    /\ replace \in BOOLEAN
    /\ commit \in BOOLEAN
    /\ show_debug \in BOOLEAN
    /\ napalm_args \in NapalmArgs
    /\ napalm_device = "None"
    /\ diff = "unset"
    /\ exc = "none"
    /\ calls = << >>
    /\ log = << >>
    /\ session = "none"
    /\ FixIdle

(* Lines 300-317: banner, optional_args parsing, napalm_device = None.     *)
(* json.loads is outside the try block: a bad string leaves the method     *)
(* with the exception.                                                     *)
DeployStart ==
    /\ pc = "deploy"
    /\ LET l1 == LogInfo(log, "----------------")
           l2 == LogInfo(l1, "Connecting to device and deploying configuration")
           l3 == LogInfo(l2, "Device IP")
           l4 == LogInfo(l3, "NAPALM Driver")
           l5 == LogInfo(l4, IF dry_run THEN "Mode: DRY RUN"
                                        ELSE "Mode: LIVE DEPLOYMENT")
       IN log' = LogInfo(l5, IF replace THEN "Method: REPLACE"
                                        ELSE "Method: MERGE")
    /\ IF napalm_args = "badjson"
          THEN /\ pc' = "raised"
               /\ exc' = "Exception"
          ELSE /\ pc' = "driver"
               /\ exc' = exc
    /\ UNCHANGED << fixjob, params, napalm_device, diff, calls, session >>

(* Lines 320-326: get_network_driver(driver_name) and driver(...). *)
MakeDriver ==
    /\ pc = "driver"
    /\ \E r \in Results :
          IF r = "ok"
             THEN /\ napalm_device' = "driver"
                  /\ pc' = "open"
                  /\ exc' = exc
             ELSE /\ napalm_device' = napalm_device
                  /\ pc' = HandlerFor(r)
                  /\ exc' = r
    /\ UNCHANGED << fixjob, params, diff, calls, log, session >>

(* Lines 328-330: napalm_device.open(). *)
Open ==
    /\ pc = "open"
    /\ \E r \in Results :
          /\ Call("open", r)
          /\ IF r = "ok"
                THEN /\ log' = Logger(LogInfo(log, "Opening connection"),
                                      "success", "Connected", "")
                     /\ session' = "open"
                     /\ pc' = "load"
                     /\ exc' = exc
                ELSE /\ log' = LogInfo(log, "Opening connection")
                     /\ session' = session
                     /\ pc' = HandlerFor(r)
                     /\ exc' = r
    /\ UNCHANGED << fixjob, params, napalm_device, diff >>

(* Lines 332-342: load_replace_candidate or load_merge_candidate. *)
Load ==
    /\ pc = "load"
    /\ LET l1 == LogInfo(log, "Loading configuration to device")
           l2 == IF replace
                    THEN Logger(l1, "warning", "REPLACE mode: Entire configuration will be replaced", "")
                    ELSE LogInfo(l1, "MERGE mode: Configuration will be merged with existing")
       IN \E r \in Results :
             /\ Call(StageOp(replace), r)
             /\ IF r = "ok"
                   THEN /\ log' = LoadedMessage(l2)
                        /\ pc' = "compare"
                        /\ exc' = exc
                   ELSE /\ log' = l2
                        /\ pc' = HandlerFor(r)
                        /\ exc' = r
    /\ UNCHANGED << fixjob, params, napalm_device, diff, session >>

(* Lines 344-354: diff = compare_config(), and the `if diff:` that follows. *)
Compare ==
    /\ pc = "compare"
    /\ LET l1 == LogInfo(log, "Generating configuration diff")
       IN \/ \E d \in DiffTexts :
                /\ Call("compare_config", "ok")
                /\ diff' = d
                /\ exc' = exc
                /\ IF d # ""
                      THEN /\ log' = LogInfo(
                                        LogInfo(
                                           LogInfo(
                                              LogInfo(l1, "Configuration changes:"),
                                              "----------------"),
                                           d),
                                        "----------------")
                           /\ pc' = "decide"
                      ELSE /\ log' = LogInfo(l1, "No configuration changes detected")
                           /\ pc' = "nodiff"
          \/ \E r \in Raised :
                /\ Call("compare_config", r)
                /\ diff' = diff
                /\ log' = l1
                /\ pc' = HandlerFor(r)
                /\ exc' = r
    /\ UNCHANGED << fixjob, params, napalm_device, session >>

(* Lines 355-356: discard_config() and return when nothing changed. *)
NoDiffDiscard ==
    /\ pc = "nodiff"
    /\ \E r \in Results :
          /\ Call("discard_config", r)
          /\ IF r = "ok"
                THEN /\ pc' = AfterReturn
                     /\ exc' = exc
                ELSE /\ pc' = HandlerFor(r)
                     /\ exc' = r
    /\ UNCHANGED << fixjob, params, napalm_device, diff, log, session >>

(* Lines 359-364: the dry-run branch. *)
DryRunDiscard ==
    /\ pc = "decide"
    /\ dry_run
    /\ LET l1 == Logger(log, "warning", "DRY RUN mode: Discarding configuration changes", "")
       IN \E r \in Results :
             /\ Call("discard_config", r)
             /\ IF r = "ok"
                   THEN /\ log' = LogInfo(l1, "To apply these changes, run again with dry run unchecked")
                        /\ pc' = "finally"
                        /\ exc' = exc
                   ELSE /\ log' = l1
                        /\ pc' = HandlerFor(r)
                        /\ exc' = r
    /\ UNCHANGED << fixjob, params, napalm_device, diff, session >>

(* Lines 365-371: commit_config(). *)
Commit ==
    /\ pc = "decide"
    /\ ~dry_run
    /\ commit
    /\ LET l1 == LogInfo(log, "Committing configuration changes")
       IN \E r \in Results :
             /\ Call("commit_config", r)
             /\ IF r = "ok"
                   THEN /\ log' = Logger(l1, "success", "Configuration committed successfully and saved to startup-config", "")
                        /\ pc' = "facts"
                        /\ exc' = exc
                   ELSE /\ log' = l1
                        /\ pc' = HandlerFor(r)
                        /\ exc' = r
    /\ UNCHANGED << fixjob, params, napalm_device, diff, session >>

(* Lines 373-378: get_facts() and the message built from facts.get(). *)
GetFacts ==
    /\ pc = "facts"
    /\ LET l1 == LogInfo(log, "Verifying configuration")
       IN \E r \in Results :
             /\ Call("get_facts", r)
             /\ IF r = "ok"
                   THEN /\ log' = Logger(l1, "success", "Device is running with new configuration", "")
                        /\ pc' = "finally"
                        /\ exc' = exc
                   ELSE /\ log' = l1
                        /\ pc' = HandlerFor(r)
                        /\ exc' = r
    /\ UNCHANGED << fixjob, params, napalm_device, diff, session >>

(* Lines 379-381: commit disabled, the candidate is discarded. *)
NoCommitDiscard ==
    /\ pc = "decide"
    /\ ~dry_run
    /\ ~commit
    /\ LET l1 == Logger(log, "warning", "Commit disabled: Changes loaded but not committed", "")
       IN \E r \in Results :
             /\ Call("discard_config", r)
             /\ log' = l1
             /\ IF r = "ok"
                   THEN /\ pc' = "finally"
                        /\ exc' = exc
                   ELSE /\ pc' = HandlerFor(r)
                        /\ exc' = r
    /\ UNCHANGED << fixjob, params, napalm_device, diff, session >>

(* Lines 383-391: except ConnectionException. *)
ExceptConnection ==
    /\ pc = "except_connection"
    /\ log' = Logger(Logger(log, "error", "Connection error", exc),
                     "error", "Please verify", "")
    /\ exc' = "none"
    /\ pc' = "finally"
    /\ UNCHANGED << fixjob, params, napalm_device, diff, calls, session >>

(* Lines 393-395: except (CommitError, ReplaceConfigException). *)
ExceptCommit ==
    /\ pc = "except_commit"
    /\ log' = Logger(Logger(log, "error", "Configuration deployment error", exc),
                     "error", "Configuration has been rolled back", "")
    /\ exc' = "none"
    /\ pc' = "finally"
    /\ UNCHANGED << fixjob, params, napalm_device, diff, calls, session >>

(* Lines 397-401: except Exception, up to `if napalm_device:`. *)
ExceptGeneric ==
    /\ pc = "except_generic"
    /\ log' = Logger(Logger(log, "error", "Unexpected error during deployment", exc),
                     "error", "traceback", exc)
    /\ exc' = "none"
    /\ pc' = IF Truthy(napalm_device) THEN "except_discard" ELSE "finally"
    /\ UNCHANGED << fixjob, params, napalm_device, diff, calls, session >>

(* Lines 402-407: the handler's own discard_config(), guarded by its own   *)
(* try/except Exception.                                                   *)
ExceptDiscard ==
    /\ pc = "except_discard"
    /\ LET l1 == LogInfo(log, "Attempting to discard configuration changes")
       IN \E r \in Results :
             /\ Call("discard_config", r)
             /\ log' = IF r = "ok"
                          THEN LogInfo(l1, "Configuration changes discarded")
                          ELSE Logger(l1, "error", "Could not discard config", r)
             /\ pc' = AfterHandlerDiscard(r)
    /\ UNCHANGED << fixjob, params, napalm_device, diff, exc, session >>

(* Lines 409-415: finally, with a driver object: close(), guarded by its   *)
(* own try/except Exception.  A close() that raised may or may not have    *)
(* ended an open session.                                                  *)
FinallyClose ==
    /\ pc = "finally"
    /\ Truthy(napalm_device)
    /\ \E r \in Results :
          /\ Call("close", r)
          /\ IF r = "ok"
                THEN /\ log' = LogInfo(log, "Connection closed")
                     /\ session' = IF session = "open" THEN "closed" ELSE session
                ELSE /\ log' = Logger(log, "warning", "Error closing connection", r)
                     /\ session' \in IF session = "open" THEN { "open", "closed" }
                                                         ELSE { session }
    /\ pc' = "done"
    /\ UNCHANGED << fixjob, params, napalm_device, diff, exc >>

(* Lines 409-410: finally, napalm_device still None: nothing to close. *)
FinallyNoDevice ==
    /\ pc = "finally"
    /\ ~Truthy(napalm_device)
    /\ pc' = "done"
    /\ UNCHANGED << fixjob, params, napalm_device, diff, exc, calls, log, session >>

Next ==
    \/ DeployStart
    \/ MakeDriver
    \/ Open
    \/ Load
    \/ Compare
    \/ NoDiffDiscard
    \/ DryRunDiscard
    \/ Commit
    \/ GetFacts
    \/ NoCommitDiscard
    \/ ExceptConnection
    \/ ExceptCommit
    \/ ExceptGeneric
    \/ ExceptDiscard
    \/ FinallyClose
    \/ FinallyNoDevice

Spec == Init /\ [][Next]_vars

(* The method is sequential code: as long as a step remains, and every     *)
(* driver call returns or raises, the next step is taken.                  *)
SpecLive == Init /\ [][Next]_vars /\ WF_vars(Next)

----------------------------------------------------------------------------
(* ProvisionDevice.run, from its call by the job runner. *)

InitRun ==
    /\ pc = "run"
    /\ device \in DeviceShapes
    /\ secrets_group \in BOOLEAN
    /\ golden \in GoldenStates
    /\ username = "unset"
    /\ password = "unset"
    /\ username_from_secrets = FALSE
    /\ password_from_secrets = FALSE
    /\ store_calls = << >>
    /\ intended_config = "unset"
    /\ dry_run \in BOOLEAN
    /\ replace \in BOOLEAN
    /\ commit \in BOOLEAN
    /\ show_debug \in BOOLEAN
    /\ napalm_args \in NapalmArgs
    /\ napalm_device = "None"
    /\ diff = "unset"
    /\ exc = "none"
    /\ calls = << >>
    /\ log = << >>
    /\ session = "none"
    /\ FixIdle

(* Lines 72-76: the banner. *)
RunStart ==
    /\ pc = "run"
    /\ log' = LogInfo(LogInfo(LogInfo(log, "================"),
                              "Starting provisioning for device"),
                      "================")
    /\ pc' = "validate"
    /\ UNCHANGED << fixjob, params, deploy >>

(* Lines 78-80 and _validate_device, lines 116-136. *)
Validate ==
    /\ pc = "validate"
    /\ LET l1 == LogInfo(log, "Validating device configuration")
       IN IF device = "no_platform"
             THEN /\ log' = Logger(l1, "error", "Device has no platform configured", "")
                  /\ pc' = "run_done"
          ELSE IF device = "no_driver"
             THEN /\ log' = Logger(l1, "error", "Device platform has no NAPALM driver configured", "")
                  /\ pc' = "run_done"
          ELSE IF device = "no_ip"
             THEN /\ log' = Logger(l1, "error", "Device has no primary IPv4 address", "")
                  /\ pc' = "run_done"
          ELSE /\ log' = Logger(l1, "success", "Device validation passed", "")
               /\ pc' = "creds"
    /\ UNCHANGED << fixjob, params, deploy >>

(* _get_credentials, lines 142-150 and 210-217: the defaults, and the      *)
(* branch on device.secrets_group.                                         *)
CredsStart ==
    /\ pc = "creds"
    /\ username' = DefaultUsername
    /\ password' = DefaultPassword
    /\ username_from_secrets' = FALSE
    /\ password_from_secrets' = FALSE
    /\ IF secrets_group
          THEN /\ log' = LogInfo(log, "Secrets group configured")
               /\ pc' = "creds_username"
          ELSE /\ log' = LogInfo(
                            LogInfoD(log, "No secrets group configured for this device. Using default credentials (admin/admin)",
                                     "admin"),
                            "Tip: Assign a secrets group in the device settings for production use")
               /\ pc' = "creds_final"
    /\ UNCHANGED << fixjob, flags, inventory, store_calls, intended_config, deploy >>

(* Lines 152-168: the username secret. *)
GetUsername ==
    /\ pc = "creds_username"
    /\ \E r \in UsernameResults :
          /\ store_calls' = Append(store_calls, [ field |-> "username", res |-> r ])
          /\ username' = Resolved(r, DefaultUsername)
          /\ username_from_secrets' = Obtained(r)
          /\ log' = IF Obtained(r)
                       THEN Logger(log, "success", "Retrieved username from secrets group", r)
                    ELSE IF r = StoreRaises
                       THEN LogInfo(LogDebug(log, "Could not retrieve username"),
                                    "Could not retrieve username from secrets, using default")
                    ELSE LogInfo(log, "Username secret returned empty, using default")
    /\ pc' = "creds_password"
    /\ UNCHANGED << fixjob, flags, inventory, password, password_from_secrets,
                    intended_config, deploy >>

(* Lines 170-186: the password secret. *)
GetPassword ==
    /\ pc = "creds_password"
    /\ \E r \in PasswordResults :
          /\ store_calls' = Append(store_calls, [ field |-> "password", res |-> r ])
          /\ password' = Resolved(r, DefaultPassword)
          /\ password_from_secrets' = Obtained(r)
          /\ log' = IF Obtained(r)
                       THEN Logger(log, "success", "Retrieved password from secrets group", "")
                    ELSE IF r = StoreRaises
                       THEN LogInfo(LogDebug(log, "Could not retrieve password"),
                                    "Could not retrieve password from secrets, using default")
                    ELSE LogInfo(log, "Password secret returned empty, using default")
    /\ pc' = "creds_check"
    /\ UNCHANGED << fixjob, flags, inventory, username, username_from_secrets,
                    intended_config, deploy >>

(* Lines 188-209: what is said about where the credentials came from. *)
CredsCheck ==
    /\ pc = "creds_check"
    /\ log' = IF FromSecrets(username_from_secrets, password_from_secrets)
                 THEN Logger(log, "success", "Using credentials from secrets group", "")
                 ELSE LET w  == Logger(log, "warning",
                                       "Secrets group is configured but secrets could not be retrieved. Using default credentials (admin/admin).",
                                       "admin")
                          a1 == LogInfo(w, "")
                          a2 == LogInfo(a1, "To fix this, you have two options:")
                          a3 == LogInfo(a2, "")
                          a4 == LogInfo(a3, "Option 1: Set environment variables in Nautobot")
                          a5 == LogInfo(a4, "  Add to docker-compose.yml or nautobot_config.py:")
                          a6 == LogInfoD(a5, "  NAUTOBOT_NAPALM_USERNAME=admin", "admin")
                          a7 == LogInfoD(a6, "  NAUTOBOT_NAPALM_PASSWORD=admin", "admin")
                          a8 == LogInfo(a7, "")
                          a9 == LogInfo(a8, "Option 2: Change secrets to use Text provider instead")
                          b1 == LogInfo(a9, "  Secrets -> Secrets -> Edit each secret")
                          b2 == LogInfo(b1, "  Change provider from 'environment-variable' to 'text-file' or other")
                          b3 == LogInfo(b2, "")
                          b4 == LogInfoD(b3, "For this lab, default credentials (admin/admin) will work fine!", "admin")
                      IN LogInfo(b4, "")
    /\ pc' = "creds_final"
    /\ UNCHANGED << fixjob, params, deploy >>

(* Lines 219-225: the final status line, and the return. *)
CredsFinal ==
    /\ pc = "creds_final"
    /\ log' = IF username = "admin" /\ password = "admin"
                 THEN LogInfoD(log, "Using default credentials: admin/admin", "admin")
                 ELSE LogInfoD(log, "Using credentials from secrets: <username>/<hidden>", username)
    /\ pc' = "config"
    /\ UNCHANGED << fixjob, params, deploy >>

(* Lines 85-89 and _get_intended_config, lines 227-296. *)
GetIntendedConfig ==
    /\ pc = "config"
    /\ LET l1 == LogInfo(LogInfo(log, "----------------"),
                         "Generating intended configuration from Golden Config")
           gen(l) == LogInfo(l, "Attempting to generate config using Golden Config plugin")
       IN \E helpers \in BOOLEAN :
             LET l2 == IF golden = "not_installed"
                          THEN Logger(l1, "error", "Golden Config plugin is not installed", "")
                       ELSE IF golden = "text"
                          THEN LogInfo(Logger(l1, "success", "Found existing intended config", ""),
                                       "Config preview")
                       ELSE LET l3 == IF golden = "empty"
                                         THEN Logger(l1, "warning", "Golden Config record exists but has no intended config", "")
                                         ELSE Logger(l1, "warning", "No Golden Config record found", "")
                            IN IF helpers
                                  THEN Logger(LogInfo(gen(l3), "Generating new intended configuration"),
                                              "error", "Please run the Golden Config 'Generate Intended Configurations' job first", "")
                                  ELSE Logger(gen(l3), "error", "Golden Config plugin not available or not properly configured", "")
                 c == IF golden = "text" THEN IntendedText ELSE "None"
             IN /\ intended_config' = c
                /\ IF ConfigUsable(c)
                      THEN /\ log' = l2
                           /\ pc' = "deploy"
                      ELSE /\ log' = Logger(l2, "error", "No intended configuration available. Cannot proceed.", "")
                           /\ pc' = "run_done"
    /\ UNCHANGED << fixjob, flags, inventory, creds, deploy >>

(* Lines 102-104: after _deploy_config returned. *)
RunFinish ==
    /\ pc = "done"
    /\ log' = LogInfo(CompletedMessage(LogInfo(log, "================")),
                       "================")
    /\ pc' = "run_done"
    /\ UNCHANGED << fixjob, params, deploy >>

NextRun ==
    \/ RunStart
    \/ Validate
    \/ CredsStart
    \/ GetUsername
    \/ GetPassword
    \/ CredsCheck
    \/ CredsFinal
    \/ GetIntendedConfig
    \/ DeployStart
    \/ MakeDriver
    \/ Open
    \/ Load
    \/ Compare
    \/ NoDiffDiscard
    \/ DryRunDiscard
    \/ Commit
    \/ GetFacts
    \/ NoCommitDiscard
    \/ ExceptConnection
    \/ ExceptCommit
    \/ ExceptGeneric
    \/ ExceptDiscard
    \/ FinallyClose
    \/ FinallyNoDevice
    \/ RunFinish

SpecRun == InitRun /\ [][NextRun]_vars

----------------------------------------------------------------------------
(* Observations on a run. *)

(* Number of calls of operation op made so far. *)
Count(op) == Cardinality({ i \in 1..Len(calls) : calls[i].op = op })

(* Position of the first call of op, 0 when there is none. *)
FirstCall(op) ==
    IF Count(op) = 0 THEN 0
    ELSE CHOOSE i \in 1..Len(calls) :
            /\ calls[i].op = op
            /\ \A j \in 1..(i - 1) : calls[j].op # op

(* How the call of op ended ("ok" or the exception), "" when never called. *)
ResultOf(op) == IF Count(op) = 0 THEN "" ELSE calls[FirstCall(op)].res

Logged(level, msg) ==
    \E i \in 1..Len(log) : log[i].level = level /\ log[i].msg = msg

LoggedLevel(level) == \E i \in 1..Len(log) : log[i].level = level

(* The deployment status the job's messages report, in the vocabulary of   *)
(* DeploymentResult.status.  The method returns None on every path; what   *)
(* the caller sees is the messages given to self.logger.                   *)
Outcome ==
    IF pc # "done" THEN "Running"
    ELSE IF LoggedLevel("error") THEN "Failed"
    ELSE IF Logged("success", "Configuration committed successfully and saved to startup-config")
         THEN "Committed"
    ELSE IF Logged("warning", "DRY RUN mode: Discarding configuration changes")
         THEN "DryRunDiscarded"
    ELSE IF Logged("warning", "Commit disabled: Changes loaded but not committed")
         THEN "Discarded"
    ELSE IF diff = "" THEN "NoOpNoDiff"
    ELSE "Unknown"

(* The job reports the deployment as rolled back. *)
ReportedRolledBack == Logged("error", "Configuration has been rolled back")

Done == pc = "done"

(* compare_config returned a change. *)
NonEmptyDiff == diff \notin { "unset", "" }

(* The diff text was handed to the logger by line 351: the record that     *)
(* follows "Configuration changes:" and the rule of lines 349-350.         *)
DiffReported ==
    \E i \in 3..Len(log) :
       /\ log[i - 2] = [ level |-> "info", msg |-> "Configuration changes:",
                         detail |-> "" ]
       /\ log[i - 1].msg = "----------------"
       /\ log[i] = [ level |-> "info", msg |-> diff, detail |-> "" ]

(* The discard of a discarding branch (lines 355, 361, 381) is the call    *)
(* that directly follows a compare_config that returned.                   *)
BranchDiscardAt(i) ==
    /\ i \in 2..Len(calls)
    /\ calls[i].op = "discard_config"
    /\ calls[i - 1].op = "compare_config"
    /\ calls[i - 1].res = "ok"

(* The discard of the `except Exception` handler (line 404) is the call    *)
(* that directly follows a call that raised into that handler.             *)
HandlerDiscardAt(i) ==
    /\ i \in 2..Len(calls)
    /\ calls[i].op = "discard_config"
    /\ calls[i - 1].res # "ok"
    /\ HandlerFor(calls[i - 1].res) = "except_generic"

(* The status a discarding branch reports when its discard succeeds. *)
BranchStatus ==
    IF diff = "" THEN "NoOpNoDiff"
    ELSE IF dry_run THEN "DryRunDiscarded"
    ELSE "Discarded"

----------------------------------------------------------------------------
(* C1 (as stated).  On every attempt in which open was called, whatever    *)
(* the flags and however each transport call ended, close is called        *)
(* exactly once and the attempt does not end with the session open.        *)
C1_CloseOnceAndSessionNeverLeftOpen ==
    (Done /\ Count("open") > 0) =>
        (Count("close") = 1 /\ session # "open")

(* C1 (amended).  On every attempt in which open was called, close is      *)
(* called exactly once (and never more than once at any point); the        *)
(* attempt ends with the session open only if that close call raised.      *)
C1_CloseExactlyOnce ==
    /\ Count("close") <= 1
    /\ (Done /\ Count("open") > 0) =>
          /\ Count("close") = 1
          /\ calls[Len(calls)].op = "close"
          /\ (session = "open" => ResultOf("close") # "ok")

(* C1 witness: open succeeded, the commit raised CommitError, and the      *)
(* attempt ended with one close and the session closed.                    *)
C1_Witness ==
    /\ Done
    /\ ResultOf("open") = "ok"
    /\ ResultOf("commit_config") = "CommitError"
    /\ Count("close") = 1
    /\ session = "closed"

(* C2.  When compare_config returned empty text, whatever the flags,       *)
(* commit is never called and the reported outcome is NoOpNoDiff.          *)
C2_EmptyDiffIsNoOp ==
    (Done /\ diff = "") =>
        (Count("commit_config") = 0 /\ Outcome = "NoOpNoDiff")

(* C3.  With dry_run set, whatever commit and replace are, commit is never *)
(* called; when the diff is non-empty the outcome is DryRunDiscarded and   *)
(* the diff text is reported.                                              *)
C3_DryRunNeverCommits ==
    (Done /\ dry_run) =>
        /\ Count("commit_config") = 0
        /\ NonEmptyDiff => (Outcome = "DryRunDiscarded" /\ DiffReported)

(* C4.  With dry_run off, commit on and a non-empty diff, commit is called *)
(* exactly once; the outcome is Committed if it returned and Failed if it  *)
(* raised.                                                                 *)
C4_CommitOnceAndReported ==
    (Done /\ ~dry_run /\ commit /\ NonEmptyDiff) =>
        /\ Count("commit_config") = 1
        /\ ResultOf("commit_config") = "ok" => Outcome = "Committed"
        /\ ResultOf("commit_config") # "ok" => Outcome = "Failed"

(* C5.  With dry_run off, commit off and a non-empty diff, commit is never *)
(* called and the outcome is Discarded.                                    *)
C5_CommitDisabledDiscards ==
    (Done /\ ~dry_run /\ ~commit /\ NonEmptyDiff) =>
        (Count("commit_config") = 0 /\ Outcome = "Discarded")

(* C6.  When open raises ConnectionException the outcome is Failed, no     *)
(* session exists, and neither close nor any staging, diff, commit or      *)
(* discard call is made.                                                   *)
C6_OpenFailureCallsNothing ==
    (Done /\ ResultOf("open") = "ConnectionException") =>
        /\ Outcome = "Failed"
        /\ session = "none"
        /\ Len(calls) = 1
        /\ Count("close") = 0

(* C7.  When commit raises CommitError or ReplaceConfigException the       *)
(* attempt is reported Failed with the error attached, is not reported as  *)
(* rolled back (the driver gives no rollback signal), and close is called  *)
(* exactly once.                                                           *)
C7_CommitFailureNotRolledBack ==
    (Done /\ ResultOf("commit_config") \in { "CommitError", "ReplaceConfigException" }) =>
        /\ Outcome = "Failed"
        /\ \E i \in 1..Len(log) :
              log[i].level = "error" /\ log[i].detail = ResultOf("commit_config")
        /\ ~ReportedRolledBack
        /\ Count("close") = 1

(* C8.  After a commit that returned, a get_facts that raises leaves the   *)
(* outcome Committed, and the only transport call made after it is close.  *)
C8_FactsFailureNonFatal ==
    (Done /\ ResultOf("commit_config") = "ok" /\ ResultOf("get_facts") \in Raised) =>
        /\ Outcome = "Committed"
        /\ \A i \in (FirstCall("get_facts") + 1)..Len(calls) : calls[i].op = "close"

(* C9.  When a transport call raises an exception outside the documented   *)
(* kinds, the handler's discard is made only on a session whose open       *)
(* returned and only if no commit has returned before it; close follows    *)
(* and the outcome is Failed.                                              *)
C9_HandlerDiscardOnlyOnOpenUncommitted ==
    /\ \A i \in 1..Len(calls) :
          HandlerDiscardAt(i) =>
             /\ ResultOf("open") = "ok"
             /\ ResultOf("commit_config") # "ok"
    /\ (Done /\ \E i \in 1..Len(calls) :
                   calls[i].res # "ok" /\ calls[i].op # "close"
                   /\ HandlerFor(calls[i].res) = "except_generic") =>
          (Outcome = "Failed" /\ Count("close") = 1)

(* C10.  A discard that raises in a discarding branch (empty diff, dry     *)
(* run, commit disabled) changes nothing in what is reported: the outcome  *)
(* is the one the branch reports when discard returns, no error is         *)
(* reported, and close is still called.                                    *)
C10_DiscardFailureNotEscalated ==
    (Done /\ \E i \in 1..Len(calls) : BranchDiscardAt(i) /\ calls[i].res # "ok") =>
        /\ Outcome = BranchStatus
        /\ ~LoggedLevel("error")
        /\ Count("close") = 1

----------------------------------------------------------------------------
(* C11.  With dry_run set and a non-empty diff, discard is called exactly  *)
(* once in the attempt, and before close.                                  *)
C11_DryRunDiscardsOnce ==
    (Done /\ dry_run /\ NonEmptyDiff) =>
        /\ Count("discard_config") = 1
        /\ FirstCall("discard_config") < FirstCall("close")

(* The staging calls made so far. *)
StageCalls ==
    { i \in 1..Len(calls) :
         calls[i].op \in { "load_replace_candidate", "load_merge_candidate" } }

(* C12.  When the staging call raises (merge or replace mode), the outcome *)
(* is Failed, neither compare_config nor commit_config is called, and      *)
(* close is called on the session before the method returns.               *)
C12_StageFailureClosesAndFails ==
    (Done /\ ResultOf(StageOp(replace)) \in Raised) =>
        /\ Outcome = "Failed"
        /\ Count("compare_config") = 0
        /\ Count("commit_config") = 0
        /\ Count("close") = 1
        /\ calls[Len(calls)].op = "close"

(* C12 witness: merge mode, load_merge_candidate raised                    *)
(* MergeConfigException, the attempt ended Failed with one close.          *)
C12_Witness ==
    /\ Done
    /\ ~replace
    /\ ResultOf("load_merge_candidate") = "MergeConfigException"
    /\ Outcome = "Failed"
    /\ Count("close") = 1

(* C13.  Once open has returned and the staging step is passed, exactly    *)
(* one staging call has been made: load_replace_candidate if replace is    *)
(* set, load_merge_candidate otherwise; the other one is never called.     *)
C13_StageModeFollowsReplace ==
    /\ \A i \in StageCalls :
          calls[i].op = (IF replace THEN "load_replace_candidate"
                                    ELSE "load_merge_candidate")
    /\ Cardinality(StageCalls) <= 1
    /\ StageCalls # {} => ResultOf("open") = "ok"
    /\ (ResultOf("open") = "ok" /\ pc # "load") => Cardinality(StageCalls) = 1

(* C13 witness: replace set, the attempt ran to a commit, and the one      *)
(* staging call was load_replace_candidate.                                *)
C13_Witness ==
    /\ Done
    /\ replace
    /\ Count("load_replace_candidate") = 1
    /\ Count("load_merge_candidate") = 0
    /\ ResultOf("commit_config") = "ok"

----------------------------------------------------------------------------
(* Observations on _get_credentials. *)

(* _get_credentials has returned and nothing has been logged since. *)
CredsReturned == pc = "config"

(* What get_secret_value gave for a field, "" when it was not asked. *)
StoreResult(f) ==
    IF \E i \in 1..Len(store_calls) : store_calls[i].field = f
       THEN (CHOOSE r \in UsernameResults \cup PasswordResults :
                \E i \in 1..Len(store_calls) :
                   store_calls[i].field = f /\ store_calls[i].res = r)
       ELSE ""

(* The provenance the resolver reports: the success message of line 190    *)
(* is logged exactly when a field came from the secrets group.             *)
Provenance ==
    IF Logged("success", "Using credentials from secrets group")
       THEN "from_secret_store"
       ELSE "default"

(* C14.  _get_credentials always returns a pair with a non-empty username  *)
(* and a non-empty password, whatever the secret store does for each field *)
(* (value, empty, exception); a field the store did not supply is "admin". *)
C14_CredentialsAlwaysUsable ==
    CredsReturned =>
        /\ username \notin { "", "unset", StoreRaises }
        /\ password \notin { "", "unset", StoreRaises }
        /\ ~Obtained(StoreResult("username")) => username = "admin"
        /\ ~Obtained(StoreResult("password")) => password = "admin"

(* C14 witness: the store returned empty for the username and raised for   *)
(* the password, and the resolver returned admin/admin.                    *)
C14_Witness ==
    /\ CredsReturned
    /\ Len(store_calls) = 2
    /\ StoreResult("username") = ""
    /\ StoreResult("password") = StoreRaises
    /\ username = "admin"
    /\ password = "admin"

(* C15.  With a secrets group, each field is resolved on its own: a field  *)
(* the store supplied keeps the store's value whatever happened to the     *)
(* other, a field it did not supply is "admin", and the pair is reported   *)
(* as from the secret store exactly when at least one field was supplied.  *)
C15_FieldsResolvedIndependently ==
    (CredsReturned /\ secrets_group) =>
        /\ username = (IF Obtained(StoreResult("username"))
                          THEN StoreResult("username") ELSE "admin")
        /\ password = (IF Obtained(StoreResult("password"))
                          THEN StoreResult("password") ELSE "admin")
        /\ (Provenance = "from_secret_store") <=>
              (Obtained(StoreResult("username")) \/ Obtained(StoreResult("password")))

(* C15 witness: the store gave the username and raised for the password.   *)
C15_Witness ==
    /\ CredsReturned
    /\ StoreResult("username") = "netops"
    /\ StoreResult("password") = StoreRaises
    /\ username = "netops"
    /\ password = "admin"
    /\ Provenance = "from_secret_store"

(* C16.  Without a secrets group the resolver returns exactly              *)
(* ("admin", "admin"), reports no secret-store provenance, and never       *)
(* queries the secret store.                                               *)
C16_NoSecretsGroupGivesDefaults ==
    (CredsReturned /\ ~secrets_group) =>
        /\ username = "admin"
        /\ password = "admin"
        /\ Provenance = "default"
        /\ store_calls = << >>

(* C16 witness: the resolver returned for a device without secrets group.  *)
C16_Witness ==
    /\ CredsReturned
    /\ ~secrets_group
    /\ username = "admin"
    /\ password = "admin"
    /\ Logged("success", "Device validation passed")

(* C17.  No message the resolver emitted carries the full value of the     *)
(* password it returns.                                                    *)
C17_PasswordNeverLogged ==
    CredsReturned => \A i \in 1..Len(log) : log[i].detail # password

----------------------------------------------------------------------------
(* C18.  When _get_intended_config yields nothing for the device (no       *)
(* record, a record without intended config, no plugin), run reports an    *)
(* error and ends, and no driver is constructed and no transport call is   *)
(* ever made in that run.                                                  *)
C18_NoConfigNoConnection ==
    /\ intended_config = "None" =>
          /\ pc = "run_done"
          /\ Logged("error", "No intended configuration available. Cannot proceed.")
          /\ napalm_device = "None"
          /\ calls = << >>
          /\ session = "none"
    /\ (golden # "text" /\ pc = "run_done" /\ device = "ok") => intended_config = "None"

(* C18 witness: a record without intended config ended the run.            *)
C18_Witness ==
    /\ golden = "empty"
    /\ device = "ok"
    /\ pc = "run_done"
    /\ intended_config = "None"
    /\ calls = << >>

----------------------------------------------------------------------------
(* The first call that raised, close apart (0 when none did). *)
FirstFailure ==
    IF \E i \in 1..Len(calls) : calls[i].res # "ok" /\ calls[i].op # "close"
       THEN CHOOSE i \in 1..Len(calls) :
               /\ calls[i].res # "ok" /\ calls[i].op # "close"
               /\ \A j \in 1..(i - 1) : calls[j].res = "ok"
       ELSE 0

(* The stage of a failure as a reader of the job's messages can tell it:   *)
(* "Connected" is logged once open returned, "Configuration loaded         *)
(* successfully" once the staging call returned.                           *)
FailedStageFromLog ==
    IF ~Logged("success", "Connected") THEN "connect"
    ELSE IF ~Logged("success", "Configuration loaded successfully") THEN "stage"
    ELSE "after_stage"

(* C20.  A failure of open, a failure of the staging call and a failure of *)
(* commit are reported differently: from the messages of a failed attempt  *)
(* alone one can tell which of the three it was.                           *)
C20_FailureKindsDistinguishable ==
    (Done /\ FirstFailure # 0) =>
        /\ Outcome = "Failed"
        /\ calls[FirstFailure].op = "open" => FailedStageFromLog = "connect"
        /\ FirstFailure \in StageCalls => FailedStageFromLog = "stage"
        /\ calls[FirstFailure].op = "commit_config" => FailedStageFromLog = "after_stage"

(* C20 witness: a replace-mode commit raised ReplaceConfigException, the   *)
(* exception a failed replace-mode staging raises too.                     *)
C20_Witness ==
    /\ Done
    /\ replace
    /\ ~show_debug
    /\ ResultOf("commit_config") = "ReplaceConfigException"
    /\ FailedStageFromLog = "after_stage"

----------------------------------------------------------------------------
(* The exceptions the first two except clauses take. *)
Documented == { "ConnectionException", "CommitError", "ReplaceConfigException" }

(* The order of the transport calls of one attempt: open first, the        *)
(* staging call right after an open that returned, compare_config right    *)
(* after a staging call that returned, commit_config right after a         *)
(* compare_config that returned a change, and nothing after close.         *)
CallOrder ==
    \A i \in 1..Len(calls) :
       /\ calls[i].op = "open" => i = 1
       /\ i \in StageCalls =>
             (i = 2 /\ calls[1].op = "open" /\ calls[1].res = "ok")
       /\ calls[i].op = "compare_config" =>
             (i = 3 /\ 2 \in StageCalls /\ calls[2].res = "ok")
       /\ calls[i].op = "commit_config" =>
             (i = 4 /\ calls[3].op = "compare_config" /\ calls[3].res = "ok"
                    /\ NonEmptyDiff)
       /\ calls[i].op = "close" => i = Len(calls)

(* C21 (as stated).  The transport calls of an attempt are in strict       *)
(* order, nothing but close is called after a commit that raised, and      *)
(* nothing is called after close.                                          *)
C21_StrictOrderOnlyCloseAfterCommitFailure ==
    /\ CallOrder
    /\ \A i \in 1..Len(calls) :
          (calls[i].op = "commit_config" /\ calls[i].res # "ok") =>
             \A j \in (i + 1)..Len(calls) : calls[j].op = "close"

(* C21 (amended).  The transport calls of an attempt are in strict order   *)
(* and nothing is called after close.  After a commit that raised          *)
(* ConnectionException, CommitError or ReplaceConfigException nothing but  *)
(* close is called; after a commit that raised anything else the handler   *)
(* calls discard_config once, and then only close.                         *)
C21_StrictOrder ==
    /\ CallOrder
    /\ \A i \in 1..Len(calls) :
          (calls[i].op = "commit_config" /\ calls[i].res # "ok") =>
             \A j \in (i + 1)..Len(calls) :
                \/ calls[j].op = "close"
                \/ /\ calls[j].op = "discard_config"
                   /\ j = i + 1
                   /\ calls[i].res \notin Documented

(* C21 witness: commit raised CommitError and close was the only call      *)
(* after it.                                                               *)
C21_Witness ==
    /\ Done
    /\ Len(calls) = 5
    /\ calls[4] = [ op |-> "commit_config", res |-> "CommitError" ]
    /\ calls[5].op = "close"

----------------------------------------------------------------------------
(* The statuses an attempt can end in. *)
TerminalStatus ==
    { "Committed", "Discarded", "DryRunDiscarded", "NoOpNoDiff", "Failed" }

(* Positions of _deploy_config in the order control passes them. *)
Rank(p) ==
    IF p = "deploy" THEN 0
    ELSE IF p = "driver" THEN 1
    ELSE IF p = "open" THEN 2
    ELSE IF p = "load" THEN 3
    ELSE IF p = "compare" THEN 4
    ELSE IF p \in { "nodiff", "decide" } THEN 5
    ELSE IF p = "facts" THEN 6
    ELSE IF p \in { "except_connection", "except_commit", "except_generic" } THEN 7
    ELSE IF p = "except_discard" THEN 8
    ELSE IF p = "finally" THEN 9
    ELSE 10

(* C22 (as stated), its final state: an attempt that called open ends in   *)
(* one of the terminal statuses with the session not open.                 *)
C22_EndsTerminalWithSessionClosed ==
    (Done /\ Count("open") > 0) =>
        (Outcome \in TerminalStatus /\ session \in { "none", "closed" })

(* C22 (amended).  Once open is about to be called the attempt reaches its *)
(* end, in one of the terminal statuses and with close called once; the    *)
(* session is still open at the end only if close raised.  Every step      *)
(* moves to a later position: none is entered twice.                       *)
C22_RunsToTerminalState ==
    /\ (pc = "open") ~> Done
    /\ []((Done /\ Count("open") > 0) =>
             /\ Outcome \in TerminalStatus
             /\ Count("close") = 1
             /\ (session = "open" => ResultOf("close") # "ok"))
    /\ [][Rank(pc') > Rank(pc)]_vars

(* C22 witness: an attempt that committed and ended with the session       *)
(* closed.                                                                 *)
C22_Witness ==
    /\ Done
    /\ Outcome = "Committed"
    /\ session = "closed"
    /\ ResultOf("get_facts") = "ok"

----------------------------------------------------------------------------
(* run has ended: it returned, or an exception left it. *)
RunEnded == pc \in { "run_done", "raised" }

Completed == Logged("success", "Provisioning completed")

(* C24.  run logs "Provisioning completed" exactly when the device         *)
(* validation passed and a non-empty intended configuration was obtained,  *)
(* however the deployment ended.                                           *)
C24_CompletedIffValidatedAndConfigured ==
    RunEnded =>
        (Completed <=> (device = "ok" /\ ConfigUsable(intended_config)
                        /\ intended_config # "unset"))

----------------------------------------------------------------------------
(* C25.  When a call made after open returned (staging, compare, commit,   *)
(* discard, get_facts) raises ConnectionException, CommitError or          *)
(* ReplaceConfigException, no discard follows: the only call after it is   *)
(* one close.                                                              *)
C25_DocumentedFailureOnlyCloses ==
    \A i \in 2..Len(calls) :
       (calls[i].res \in Documented /\ calls[i].op # "close") =>
          /\ \A j \in (i + 1)..Len(calls) : (j = i + 1 /\ calls[j].op = "close")
          /\ Done => Len(calls) = i + 1

(* C25 witness: the staging call raised ReplaceConfigException with the    *)
(* candidate possibly half loaded, and only close followed.                *)
C25_Witness ==
    /\ Done
    /\ replace
    /\ Len(calls) = 3
    /\ calls[2] = [ op |-> "load_replace_candidate", res |-> "ReplaceConfigException" ]
    /\ calls[3].op = "close"

----------------------------------------------------------------------------
(* FixNetworkConnectivity (jobs/nautobot_job_fix_connectivity.py).         *)

(* The most devices one run is given. *)
MaxDevices == 2

(* What a Device may lack, in the order _validate_device tests. *)
FixDeviceShapes == { "ok", "not_arista", "no_ip", "no_eth2" }

(* What _discover_devices can return: Arista devices with Ethernet2. *)
DiscoveredShapes == { "ok", "no_ip" }

(* Lists of at most MaxDevices devices of the given shapes. *)
DeviceLists(shapes) ==
    UNION { [ 1..n -> shapes ] : n \in 0..MaxDevices }

(* Results of a pyeapi call: it returns or raises. *)
EapiResults == { "ok", "raises" }

(* TEMPLATE rendered for a device with its one Ethernet2 entry, line by    *)
(* line, each line as its words; the empty line has none.                  *)
Rendered ==
    << << >>,
       << "!" >>,
       << "!", "=== FIX: Enable Ethernet2 interfaces ===" >>,
       << "!" >>,
       << "interface", "Ethernet2" >>,
       << "description", "Data interface" >>,
       << "switchport", "mode", "access" >>,
       << "switchport", "access", "vlan", "10" >>,
       << "no", "shutdown" >>,
       << "!" >>,
       << "!" >>,
       << "!", "=== Add Loopback interface ===" >>,
       << "!" >>,
       << "interface", "Loopback0" >>,
       << "description", "Loopback" >>,
       << "ip", "address", "10.99.99.99/32" >>,
       << "no", "shutdown" >>,
       << "!" >>,
       << "end" >> >>

(* Line 291: `line.strip() and not line.strip().startswith("!")` *)
IsCommand(line) == line # << >> /\ line[1] # "!"

(* Lines 289-292: config_cmds. *)
RECURSIVE ConfigCmds(_)
ConfigCmds(lines) ==
    IF lines = << >> THEN << >>
    ELSE IF IsCommand(Head(lines))
         THEN << Head(lines) >> \o ConfigCmds(Tail(lines))
         ELSE ConfigCmds(Tail(lines))

(* _validate_device: the level and message of the first failed test. *)
ValidationMessage(d) ==
    IF d = "not_arista" THEN << "warning", "is not Arista platform - skipping" >>
    ELSE IF d = "no_ip" THEN << "error", "has no primary IPv4 address - skipping" >>
    ELSE << "warning", "has no Ethernet2 interface - skipping" >>

(* Where the for loop of run goes once device i of n is dealt with. *)
AfterDevice(i, n) == IF i < n THEN "fix_process" ELSE "fix_finish"

(* Variant of AfterExcept in which the exception leaves the loop and run.  *)
AfterExcept_propagates(i, n) == "fix_raised"

(* Lines 308-311: the handler returns, _process_device returns, the loop   *)
(* goes on.                                                                *)
AfterExcept(i, n) == AfterDevice(i, n)

(* One pyeapi call for the device the loop is at. *)
EapiCall(op, res) ==
    eapi' = Append(eapi, [ dev |-> position, op |-> op, res |-> res ])

(* Variables of ProvisionDevice that FixNetworkConnectivity never touches. *)
provision == << replace, show_debug, napalm_args, inventory, creds,
                intended_config, deploy >>

InitFix ==
    /\ pc = "fix_run"
    /\ device = "ok"
    /\ secrets_group = FALSE
    /\ golden = "text"
    /\ username = DefaultUsername
    /\ password = DefaultPassword
    /\ username_from_secrets = FALSE
    /\ password_from_secrets = FALSE
    /\ store_calls = << >>
    /\ intended_config = IntendedText
    /\ dry_run \in BOOLEAN
    /\ replace = FALSE
    /\ commit \in BOOLEAN
    /\ show_debug = FALSE
    /\ napalm_args = "None"
    /\ napalm_device = "None"
    /\ diff = "unset"
    /\ exc = "none"
    /\ calls = << >>
    /\ log = << >>
    /\ session = "none"
    /\ PYEAPI_AVAILABLE \in BOOLEAN
    /\ devices \in DeviceLists(FixDeviceShapes)
    /\ position = 0
    /\ eapi = << >>

(* Lines 100-107: the pyeapi check and the banner. *)
FixStart ==
    /\ pc = "fix_run"
    /\ IF ~PYEAPI_AVAILABLE
          THEN /\ log' = Logger(Logger(log, "error",
                                       "pyeapi library is not installed", 0),
                                "error", "Install with: pip install pyeapi", 0)
               /\ pc' = "fix_done"
          ELSE /\ log' = Logger(Logger(Logger(log, "info", "================", 0),
                                       "info", "Fix Network Connectivity Job", 0),
                                "info", "================", 0)
               /\ pc' = IF devices = << >> THEN "fix_discover" ELSE "fix_found"
    /\ UNCHANGED << fixjob, flags, provision >>

(* Lines 146-147: one line for each device found, from device i on. *)
RECURSIVE DiscoveredLines(_, _, _)
DiscoveredLines(l, found, i) ==
    IF i > Len(found) THEN l
    ELSE DiscoveredLines(
            Logger(l, "info",
                   IF found[i] = "no_ip" THEN "  - device (No IP)"
                                         ELSE "  - device (address)",
                   i),
            found, i + 1)

(* Lines 110-112 and _discover_devices: the database query. *)
Discover ==
    /\ pc = "fix_discover"
    /\ \E found \in DeviceLists(DiscoveredShapes) :
          /\ devices' = found
          /\ log' = DiscoveredLines(
                        Logger(Logger(log, "info", "No devices specified", 0),
                               "info", "Auto-discovered", Len(found)),
                        found, 1)
    /\ pc' = "fix_found"
    /\ UNCHANGED << PYEAPI_AVAILABLE, position, eapi, flags, provision >>

(* Lines 114-119: nothing to do, or the loop starts at the first device. *)
Found ==
    /\ pc = "fix_found"
    /\ IF devices = << >>
          THEN /\ log' = Logger(log, "warning", "No devices found to configure", 0)
               /\ pc' = "fix_done"
               /\ UNCHANGED position
          ELSE /\ log' = Logger(Logger(log, "info",
                                       "Found device(s) to configure",
                                       Len(devices)),
                                "info", "", 0)
               /\ pc' = "fix_process"
               /\ position' = 1
    /\ UNCHANGED << PYEAPI_AVAILABLE, devices, eapi, flags, provision >>

(* _process_device up to the push, lines 151-177, with _validate_device    *)
(* and the first lines of _push_config_to_device (273-275).                *)
ProcessDevice ==
    /\ pc = "fix_process"
    /\ LET l0 == Logger(log, "info", "----------------", 0)
           l1 == Logger(l0, "info", "Processing device", position)
           d  == devices[position]
           r1 == Logger(l1, "info", "Rendered configuration:", 0)
           r2 == Logger(r1, "info", "----------------", 0)
           r3 == Logger(r2, "info", "rendered_config", position)
           l2 == Logger(r3, "info", "----------------", 0)
       IN IF d # "ok"
             THEN /\ log' = Logger(l1, ValidationMessage(d)[1],
                                   ValidationMessage(d)[2], position)
                  /\ pc' = AfterDevice(position, Len(devices))
             ELSE IF dry_run
             THEN /\ log' = Logger(
                               Logger(l2, "warning",
                                      "DRY RUN mode - configuration NOT pushed",
                                      position),
                               "info",
                               "Run again with 'Dry run' unchecked to apply changes",
                               0)
                  /\ pc' = AfterDevice(position, Len(devices))
             ELSE /\ log' = Logger(l2, "info", "Connecting", position)
                  /\ pc' = "fix_connect"
    /\ position' = IF pc' = "fix_process" THEN position + 1 ELSE position
    /\ UNCHANGED << PYEAPI_AVAILABLE, devices, eapi, flags, provision >>

(* Lines 279-292 and 305-306: pyeapi.connect, Node, config_cmds. *)
Connect ==
    /\ pc = "fix_connect"
    /\ \E r \in EapiResults :
          /\ EapiCall("connect", r)
          /\ IF r # "ok"
                THEN /\ pc' = "fix_except"
                     /\ UNCHANGED log
                ELSE IF ConfigCmds(Rendered) # << >>
                THEN /\ pc' = "fix_config"
                     /\ UNCHANGED log
                ELSE /\ pc' = AfterDevice(position, Len(devices))
                     /\ log' = Logger(log, "warning",
                                      "No configuration commands to push",
                                      position)
    /\ position' = IF pc' = "fix_process" THEN position + 1 ELSE position
    /\ UNCHANGED << PYEAPI_AVAILABLE, devices, flags, provision >>

(* Lines 296-304: node.config(config_cmds) and the commit_changes test. *)
NodeConfig ==
    /\ pc = "fix_config"
    /\ \E r \in EapiResults :
          /\ EapiCall("config", r)
          /\ IF r # "ok"
                THEN /\ pc' = "fix_except"
                     /\ UNCHANGED log
                ELSE LET l1 == Logger(log, "success", "Configuration pushed",
                                      position)
                     IN IF commit
                           THEN /\ pc' = "fix_save"
                                /\ log' = l1
                           ELSE /\ pc' = AfterDevice(position, Len(devices))
                                /\ log' = Logger(l1, "warning",
                                                 "Configuration NOT saved",
                                                 position)
    /\ position' = IF pc' = "fix_process" THEN position + 1 ELSE position
    /\ UNCHANGED << PYEAPI_AVAILABLE, devices, flags, provision >>

(* Lines 301-302: node.enable("write memory"). *)
WriteMemory ==
    /\ pc = "fix_save"
    /\ \E r \in EapiResults :
          /\ EapiCall("write memory", r)
          /\ IF r # "ok"
                THEN /\ pc' = "fix_except"
                     /\ UNCHANGED log
                ELSE /\ pc' = AfterDevice(position, Len(devices))
                     /\ log' = Logger(log, "success", "Configuration saved",
                                      position)
    /\ position' = IF pc' = "fix_process" THEN position + 1 ELSE position
    /\ UNCHANGED << PYEAPI_AVAILABLE, devices, flags, provision >>

(* Lines 308-311: except Exception. *)
PushExcept ==
    /\ pc = "fix_except"
    /\ log' = Logger(Logger(log, "error", "Failed to configure", position),
                     "debug", "traceback", position)
    /\ pc' = AfterExcept(position, Len(devices))
    /\ position' = IF pc' = "fix_process" THEN position + 1 ELSE position
    /\ UNCHANGED << PYEAPI_AVAILABLE, devices, eapi, flags, provision >>

(* Lines 125-127: after the loop. *)
FixFinish ==
    /\ pc = "fix_finish"
    /\ log' = Logger(Logger(Logger(log, "info", "================", 0),
                            "success", "Completed processing", Len(devices)),
                     "info", "================", 0)
    /\ pc' = "fix_done"
    /\ UNCHANGED << fixjob, flags, provision >>

NextFix ==
    \/ FixStart
    \/ Discover
    \/ Found
    \/ ProcessDevice
    \/ Connect
    \/ NodeConfig
    \/ WriteMemory
    \/ PushExcept
    \/ FixFinish

SpecFix == InitFix /\ [][NextFix]_vars

----------------------------------------------------------------------------
(* The devices _process_device was called for, in order. *)
RECURSIVE ProcessedIn(_)
ProcessedIn(l) ==
    IF l = << >> THEN << >>
    ELSE IF Head(l).msg = "Processing device"
         THEN << Head(l).detail >> \o ProcessedIn(Tail(l))
         ELSE ProcessedIn(Tail(l))

Processed == ProcessedIn(log)

(* run returned after the loop. *)
FixCompleted == pc = "fix_done" /\ Logged("success", "Completed processing")

(* The handler of the failed call k is still to run. *)
HandlerPending(k) ==
    pc = "fix_except" /\ k = Len(eapi)

(* C26.  run processes the devices one at a time in list order; once the   *)
(* handler of a failed pyeapi call has run, the next device of the list is *)
(* taken, and run ends having processed every device.  No pyeapi call is   *)
(* made for a device when dry_run is set or its validation failed, and     *)
(* "write memory" is sent only right after the same device's config call   *)
(* returned and only when commit_changes is set.                           *)
C26_DevicesInOrderFailuresIsolated ==
    /\ \A k \in 1..Len(Processed) : Processed[k] = k
    /\ Len(Processed) = IF pc = "fix_process" THEN position - 1 ELSE position
    /\ \A k \in 1..Len(eapi) :
          /\ ~dry_run
          /\ eapi[k].dev \in 1..Len(devices)
          /\ devices[eapi[k].dev] = "ok"
          /\ eapi[k].dev \in 1..Len(Processed)
          /\ k > 1 => eapi[k - 1].dev <= eapi[k].dev
          /\ eapi[k].op = "write memory" =>
                /\ commit
                /\ k > 1
                /\ eapi[k - 1] = [ dev |-> eapi[k].dev, op |-> "config",
                                   res |-> "ok" ]
          /\ (eapi[k].res = "raises" /\ ~HandlerPending(k)) =>
                \/ position > eapi[k].dev
                \/ eapi[k].dev = Len(devices) /\ pc \in { "fix_finish", "fix_done" }
    /\ FixCompleted => Len(Processed) = Len(devices)

(* C26 witness: connecting to the first device failed, the second device   *)
(* was configured and saved, and run completed.                            *)
C26_Witness ==
    /\ FixCompleted
    /\ Len(devices) = 2
    /\ Len(eapi) = 4
    /\ eapi[1] = [ dev |-> 1, op |-> "connect", res |-> "raises" ]
    /\ eapi[4] = [ dev |-> 2, op |-> "write memory", res |-> "ok" ]

====
